---- MODULE Spec2Model ----
(***************************************************************************)
(* A model of convert.py, the PDF -> Markdown -> EPUB conversion script.   *)
(*                                                                         *)
(* Text is a sequence of one-character strings.  The regular-expression    *)
(* substitutions of fix_latex_math are modelled by what Python's re.sub    *)
(* does: a left-to-right scan that replaces the leftmost match, resumes    *)
(* after it, and resolves greedy / lazy quantifiers in backtracking order. *)
(***************************************************************************)
EXTENDS Integers, Sequences, FiniteSets, TLC

VARIABLES
    text,      \* repair: the text handed to fix_latex_math
    out,       \* repair: the text it returned
    rpc,       \* repair: "input", "once" (repaired), "twice" (repaired again)
    cpu_count, \* hardware: os.cpu_count(), 0 for None
    torch,     \* hardware: "missing" (import fails), "no_cuda", "cuda"
    gpus,      \* hardware: total_memory of each visible device, in MiB
    suggested_workers,
    suggested_batch_size,
    hpc,       \* hardware: "probe", "done"
    skip_existing, no_ocr, smart_ocr,   \* pipeline: the command-line flags
    files,     \* pipeline: the list of PDFs main works on
    idx,       \* pipeline: the position of the main loop in files
    pc,        \* pipeline: where main is
    markdown_file,  \* pipeline: main's markdown_file (NoPath for None)
    fs,        \* pipeline: the staging files named after the PDF in hand
    epub,      \* pipeline: the PDFs whose <stem>.epub is on disk
    cwd,       \* pipeline: the process working directory
    saved_cwd, \* pipeline: convert_markdown_to_epub's local cwd
    calls      \* pipeline: the extractor invocations made for the PDF in hand

rvars == <<text, out, rpc>>
hvars == <<cpu_count, torch, gpus, suggested_workers, suggested_batch_size, hpc>>
pvars == <<skip_existing, no_ocr, smart_ocr, files, idx, pc, markdown_file, fs,
           epub, cwd, saved_cwd, calls>>
vars == <<rvars, hvars, pvars>>

----------------------------------------------------------------------------
(* Characters and character classes.                                       *)

BS == "\\"

\* Python's \s on the characters a TLA+ string can spell.
WhiteSpace == {" ", "\t", "\n", "\r", "\f"}

\* [a-zA-Z0-9]
AlphaNum ==
    {"a","b","c","d","e","f","g","h","i","j","k","l","m","n","o","p","q","r",
     "s","t","u","v","w","x","y","z",
     "A","B","C","D","E","F","G","H","I","J","K","L","M","N","O","P","Q","R",
     "S","T","U","V","W","X","Y","Z",
     "0","1","2","3","4","5","6","7","8","9"}

\* [c|l|r]
ColumnChars == {"c", "|", "l", "r"}

RmCmd == <<BS, "r", "m">>
MathrmCmd == <<BS, "m", "a", "t", "h", "r", "m">>
BeginArray == <<BS,"b","e","g","i","n","{","a","r","r","a","y","}","{">>

----------------------------------------------------------------------------
(* Matching helpers.  Positions are 1-based; a matcher returns the         *)
(* position just after the match, or 0 when there is no match.             *)

\* s has the literal lit at position i.
StartsWith(s, i, lit) ==
    /\ i >= 1
    /\ i + Len(lit) - 1 <= Len(s)
    /\ \A k \in 1..Len(lit) : s[i + k - 1] = lit[k]

\* lit occurs somewhere in s.
Contains(s, lit) == \E i \in 1..Len(s) : StartsWith(s, i, lit)

\* The text s[a..b-1].
Slice(s, a, b) == SubSeq(s, a, b - 1)

Min(S) == CHOOSE x \in S : \A y \in S : x <= y

Max(S) == CHOOSE x \in S : \A y \in S : x >= y

\* The least element of S, or d when S is empty.
FirstOr(S, d) == IF S = {} THEN d ELSE Min(S)

\* The greatest element of S, or d when S is empty.
LastOr(S, d) == IF S = {} THEN d ELSE Max(S)

\* The first position >= i whose character is not in class, or Len(s)+1
\* (where a greedy  X*  ends).
SkipIn(s, i, class) ==
    FirstOr({ j \in i..Len(s) : s[j] \notin class }, Max({i, Len(s) + 1}))

\* The first position >= i whose character is c, or Len(s)+1 (where a greedy
\* [^c]*  ends).
SkipUntil(s, i, c) ==
    FirstOr({ j \in i..Len(s) : s[j] = c }, Max({i, Len(s) + 1}))

\* A quantifier  X+  that ran from j to k: k when it took something, else 0.
Plus(j, k) == IF k > j THEN k ELSE 0

----------------------------------------------------------------------------
(* fix_latex_math, steps 1-3: the legacy \rm command.                      *)

\*  \{([^}]+)\}  at position j: the position after the "}", or 0.
BracedEnd(s, j) ==
    IF ~(j <= Len(s) /\ s[j] = "{") THEN 0
    ELSE IF Plus(j + 1, SkipUntil(s, j + 1, "}")) \in 1..Len(s)
         THEN SkipUntil(s, j + 1, "}") + 1
    ELSE 0

\*  \\rm\s*\{([^}]+)\}
RmBracedEnd(s, i) ==
    IF ~StartsWith(s, i, RmCmd) THEN 0
    ELSE BracedEnd(s, SkipIn(s, i + 3, WhiteSpace))

\*  \\mathrm{\1}
RmBracedRepl(s, i, e) ==
    MathrmCmd \o <<"{">> \o Slice(s, SkipIn(s, i + 3, WhiteSpace) + 1, e - 1)
        \o <<"}">>

\*  ([a-zA-Z0-9]+)  at position j
WordEnd(s, j) == Plus(j, SkipIn(s, j, AlphaNum))

\*  \\rm\s*([a-zA-Z0-9]+)
RmUnbracedEnd(s, i) ==
    IF ~StartsWith(s, i, RmCmd) THEN 0
    ELSE WordEnd(s, SkipIn(s, i + 3, WhiteSpace))

RmUnbracedRepl(s, i, e) ==
    MathrmCmd \o <<"{">> \o Slice(s, SkipIn(s, i + 3, WhiteSpace), e) \o <<"}">>

\*  content.replace(r'\rm', r'\mathrm')
RmBareEnd(s, i) == IF StartsWith(s, i, RmCmd) THEN i + 3 ELSE 0

RmBareRepl(s, i, e) == MathrmCmd

----------------------------------------------------------------------------
(* fix_latex_math, step 4: array column specifications.                    *)

\*  (\\begin\{array\}\{[c|l|r]+)
ArrayEnd(s, i) ==
    IF ~StartsWith(s, i, BeginArray) THEN 0
    ELSE Plus(i + Len(BeginArray), SkipIn(s, i + Len(BeginArray), ColumnChars))

\*  if '{' in spec and '}' not in spec: return spec + '}'
CloseSpec(spec) ==
    IF (\E k \in 1..Len(spec) : spec[k] = "{")
       /\ ~(\E k \in 1..Len(spec) : spec[k] = "}")
    THEN spec \o <<"}">>
    ELSE spec

\* fix_array(match): spec is group 1, which is the whole match.
fix_array(s, i, e) == CloseSpec(Slice(s, i, e))

----------------------------------------------------------------------------
(* fix_latex_math, step 5: code fragments wrapped in math delimiters.      *)

\* code_patterns: a literal, then \s* where the pattern has it, then a literal.
CodePatterns ==
    << [word |-> <<"p","r","i","n","t","f">>, ws |-> TRUE, tail |-> <<"(">>],
       [word |-> <<"f","p","r","i","n","t","f">>, ws |-> TRUE, tail |-> <<"(">>],
       [word |-> <<"c","o","u","t">>, ws |-> TRUE, tail |-> <<"<","<">>],
       [word |-> <<"S","y","s","t","e","m",".","o","u","t",".","p","r","i","n","t">>,
        ws |-> FALSE, tail |-> <<>>],
       [word |-> <<"c","o","n","s","o","l","e",".","l","o","g">>, ws |-> TRUE,
        tail |-> <<"(">>] >>

\* The literal lit at position j: the position after it, or 0.
LitEnd(s, j, lit) == IF StartsWith(s, j, lit) THEN j + Len(lit) ELSE 0

\* The code pattern pat at position i: the position after it, or 0.
PatEnd(s, i, pat) ==
    IF ~StartsWith(s, i, pat.word) THEN 0
    ELSE LitEnd(s, IF pat.ws THEN SkipIn(s, i + Len(pat.word), WhiteSpace)
                   ELSE i + Len(pat.word),
                pat.tail)

\*  \1\$ : the closing delimiter, "$$" when group 1 took a "$" (g = 1).
Closing(g) == IF g = 1 THEN <<"$", "$">> ELSE <<"$">>

\*  .*?\1\$  (DOTALL, lazy) after a code pattern that ended at q: the first
\*  position >= q where the closing delimiter is; 0 when there is none or
\*  when the code pattern did not match (q = 0).
FindClose(s, q, g) ==
    IF q = 0 THEN 0
    ELSE FirstOr({ j \in q..Len(s) : StartsWith(s, j, Closing(g)) }, 0)

\*  {pattern}.*?\1\$  at position j: where the closing delimiter is, or 0.
CloseAfter(s, j, g, pat) == FindClose(s, PatEnd(s, j, pat), g)

\*  [^$]*?{pattern}.*?\1\$  from position k: the lazy [^$]*? takes the
\*  shortest run of non-"$" characters after which the rest matches.  The
\*  position of the closing delimiter, or 0.
UnwrapTry(s, k, g, pat) ==
    CloseAfter(s,
               FirstOr({ j \in k..SkipUntil(s, k, "$") :
                           CloseAfter(s, j, g, pat) # 0 }, 0),
               g, pat)

\* Group 1 tries "$" first (closing delimiter at c1), then empty (at c0).
Group1(c1, c0) ==
    IF c1 # 0 THEN [g |-> 1, close |-> c1] ELSE [g |-> 0, close |-> c0]

\*  \$(\$?)(...)\1\$  at position i:
\*  [g |-> group 1's length, close |-> where the closing delimiter starts],
\*  close = 0 when there is no match at i.
UnwrapMatch(s, i, pat) ==
    IF ~(i <= Len(s) /\ s[i] = "$") THEN [g |-> 0, close |-> 0]
    ELSE Group1(IF i + 1 <= Len(s) /\ s[i + 1] = "$"
                THEN UnwrapTry(s, i + 2, 1, pat) ELSE 0,
                UnwrapTry(s, i + 1, 0, pat))

\* The position after the match m.
AfterClose(m) == IF m.close = 0 THEN 0 ELSE m.close + m.g + 1

UnwrapEnd(s, i, pat) == AfterClose(UnwrapMatch(s, i, pat))

\* Group 2 of the match m at position i.
Group2(s, i, m) == Slice(s, i + 1 + m.g, m.close)

\*  r'\2'
UnwrapRepl(s, i, pat) == Group2(s, i, UnwrapMatch(s, i, pat))

----------------------------------------------------------------------------
(* fix_latex_math, step 6: backslashes before a closing \) or \].          *)

\*  \\\\\s*\\\)   and   \\\\\s*\\\]   (d is the bracket)
TrailDoubleEnd(s, i, d) ==
    IF ~StartsWith(s, i, <<BS, BS>>) THEN 0
    ELSE LitEnd(s, SkipIn(s, i + 2, WhiteSpace), <<BS, d>>)

\*  \s*\\\)  at position j: the position after it, or 0 (also when j = 0).
TrailCloseEnd(s, j, d) ==
    IF j = 0 THEN 0 ELSE LitEnd(s, SkipIn(s, j, WhiteSpace), <<BS, d>>)

\*  (\\+)\s*\\\) with group 1 holding at most n backslashes: greedy, so the
\*  longest run after which the rest matches.
TrailRunTry(s, i, n, d) ==
    TrailCloseEnd(s,
                  LastOr({ j \in (i + 1)..(i + n) : TrailCloseEnd(s, j, d) # 0 }, 0),
                  d)

\*  (\\+)\s*\\\)   and   (\\+)\s*\\\]
TrailRunEnd(s, i, d) ==
    IF ~(i <= Len(s) /\ s[i] = BS) THEN 0
    ELSE TrailRunTry(s, i, SkipIn(s, i, {BS}) - i, d)

\*  r' \\)' , r' \)' : a space, a backslash, the bracket.
TrailRepl(d) == <<" ", BS, d>>

----------------------------------------------------------------------------
(* re.sub and fix_latex_math.                                              *)

\* The match of pass p at position i: the position after it, or 0.
MatchEnd(p, s, i) ==
    CASE p.kind = "rm_braced" -> RmBracedEnd(s, i)
      [] p.kind = "rm_unbraced" -> RmUnbracedEnd(s, i)
      [] p.kind = "rm_bare" -> RmBareEnd(s, i)
      [] p.kind = "array" -> ArrayEnd(s, i)
      [] p.kind = "unwrap" -> UnwrapEnd(s, i, p.pat)
      [] p.kind = "trail_double" -> TrailDoubleEnd(s, i, p.d)
      [] p.kind = "trail_run" -> TrailRunEnd(s, i, p.d)
      [] p.kind = "br" -> LitEnd(s, i, <<"<", "b", "r", ">">>)

\* What pass p puts in place of the match s[i..e-1].
Replacement(p, s, i, e) ==
    CASE p.kind = "rm_braced" -> RmBracedRepl(s, i, e)
      [] p.kind = "rm_unbraced" -> RmUnbracedRepl(s, i, e)
      [] p.kind = "rm_bare" -> RmBareRepl(s, i, e)
      [] p.kind = "array" -> fix_array(s, i, e)
      [] p.kind = "unwrap" -> UnwrapRepl(s, i, p.pat)
      [] p.kind = "trail_double" -> TrailRepl(p.d)
      [] p.kind = "trail_run" -> TrailRepl(p.d)
      [] p.kind = "br" -> <<"<", "b", "r", "/", ">">>

\* The leftmost match of pass p at or after position i, or 0.
NextMatch(p, s, i) == FirstOr({ j \in i..Len(s) : MatchEnd(p, s, j) # 0 }, 0)

RECURSIVE SubFrom(_, _, _, _)
RECURSIVE SubAt(_, _, _, _, _, _)
\* re.sub scanning from position i, acc being the output so far: the leftmost
\* match is replaced and the scan resumes after it.
SubFrom(p, s, i, acc) ==
    SubAt(p, s, i, acc, NextMatch(p, s, i), MatchEnd(p, s, NextMatch(p, s, i)))

\* The same, the leftmost match being s[j..e-1] (none when j = 0).
SubAt(p, s, i, acc, j, e) ==
    IF j = 0 THEN acc \o SubSeq(s, i, Len(s))
    ELSE SubFrom(p, s, e, acc \o SubSeq(s, i, j - 1) \o Replacement(p, s, j, e))

Sub(p, s) == SubFrom(p, s, 1, <<>>)

\* Steps 1-3.
FixRm(s) ==
    Sub([kind |-> "rm_bare"],
        Sub([kind |-> "rm_unbraced"], Sub([kind |-> "rm_braced"], s)))

\* Step 4.
FixArrays(s) == Sub([kind |-> "array"], s)

RECURSIVE UnwrapFrom(_, _)
\* Step 5:  for pattern in code_patterns: content = re.sub(...)
UnwrapFrom(s, n) ==
    IF n > Len(CodePatterns) THEN s
    ELSE UnwrapFrom(Sub([kind |-> "unwrap", pat |-> CodePatterns[n]], s), n + 1)

UnwrapCode(s) == UnwrapFrom(s, 1)

\* Step 6.
FixTrailing(s) ==
    Sub([kind |-> "trail_run", d |-> "]"],
        Sub([kind |-> "trail_run", d |-> ")"],
            Sub([kind |-> "trail_double", d |-> "]"],
                Sub([kind |-> "trail_double", d |-> ")"], s))))

fix_latex_math(content) == FixTrailing(UnwrapCode(FixArrays(FixRm(content))))

----------------------------------------------------------------------------
(* The pipeline's data: paths, files and their content.                    *)

MaxFiles == 2

\*  len(content.strip()) < 100
LowQualityLimit == 100

\* The PDFs are numbered; a path is told by its place and its PDF.
Stems == 1..MaxFiles

PdfPath(i) == [type |-> "Path", stem |-> i, suffix |-> "pdf"]

\*  pdf.name[:-4] + ".epub" : a str, not a Path
EpubName(pdf) == [type |-> "str", stem |-> pdf.stem, suffix |-> "epub"]

NoPath == [where |-> "none", stem |-> 0]

\*  output_dir / doc_name / f"{doc_name}.md"
ExpectedPath(i) == [where |-> "expected", stem |-> i]

\* Another <doc_name>.md below the staging directory, as the glob finds it.
FallbackPath(i) == [where |-> "fallback", stem |-> i]

\* The staging files named <doc_name>.md, by place.  The files of one PDF
\* are neither read nor written while another PDF is processed, so fs holds
\* those of the PDF in hand only.
Places == {"expected", "fallback"}

\* The directory main is started in, and the directory of a Markdown file.
StartDir == [where |-> "start", stem |-> 0]

Parent(path) == path

\* What is at a path: nothing, bytes that do not decode as UTF-8, or text.
Absent == [kind |-> "absent", data |-> <<>>]

Garbage == [kind |-> "garbage", data |-> <<>>]

TextFile(c) == [kind |-> "text", data |-> c]

Exists(f) == f.kind # "absent"

\* n copies of the character c.
Rep(c, n) == [k \in 1..n |-> c]

BrTag == <<"<", "b", "r", ">">>
BrClosed == <<"<", "b", "r", "/", ">">>

\* What the extractor may write: nothing at all; a <br> and padding, long
\* before trimming and short after; one character short of the limit, with a
\* legacy command; and text exactly at the limit.
EmptyText == <<>>
PaddedBr == BrTag \o Rep(" ", LowQualityLimit)
ShortRm == RmCmd \o Rep("a", LowQualityLimit - 4)
LongText == Rep("a", LowQualityLimit)

Contents == { EmptyText, PaddedBr, ShortRm, LongText }

\*  content.strip()
Strip(s) ==
    SubSeq(s, SkipIn(s, 1, WhiteSpace),
           LastOr({ j \in 1..Len(s) : s[j] \notin WhiteSpace }, 0))

\*  len(content.strip()) < 100
LowQuality(c) == Len(Strip(c)) < LowQualityLimit

\*  content.replace("<br>", "<br/>")
ReplaceBr(s) == Sub([kind |-> "br"], s)

\* convert_markdown_to_epub's content and fixed_content for what it read.
Prepared(c) ==
    LET content == ReplaceBr(c)
    IN [content |-> content, fixed_content |-> fix_latex_math(content)]

\* The same, worked out once for every text a file can hold.
PreparedTable == [c \in Contents |-> Prepared(c)]

----------------------------------------------------------------------------
(* Each part idle, for the runs of the other parts.                        *)

HwIdle ==
    /\ cpu_count = 0
    /\ torch = "missing"
    /\ gpus = <<>>
    /\ suggested_workers = 0
    /\ suggested_batch_size = 0
    /\ hpc = "idle"

RepairIdle ==
    /\ text = <<>>
    /\ out = <<>>
    /\ rpc = "idle"

PipelineIdle ==
    /\ skip_existing = FALSE
    /\ no_ocr = FALSE
    /\ smart_ocr = FALSE
    /\ files = <<>>
    /\ idx = 0
    /\ pc = "idle"
    /\ markdown_file = NoPath
    /\ fs = [p \in Places |-> Absent]
    /\ epub = {}
    /\ cwd = StartDir
    /\ saved_cwd = StartDir
    /\ calls = <<>>

----------------------------------------------------------------------------
(* get_hardware_config.  Device memory is counted in MiB; the division by  *)
(* 1024**3 and the floor division by 5 are exact on such values.           *)

MaxCores == 8
MaxGpus == 2
MaxMemSteps == 12
MemStepMiB == 2048

MiBPerGiB == 1024
GiBPerWorker == 5
CpuBatchSize == 1
GpuBatchSize == 8

RECURSIVE SumSeq(_)
\*  for i in range(num_gpus): total_vram_gb += props.total_memory / (1024**3)
SumSeq(ms) == IF ms = <<>> THEN 0 ELSE Head(ms) + SumSeq(Tail(ms))

\*  cpu_cores = os.cpu_count() or 1
CpuCores(count) == IF count = 0 THEN 1 ELSE count

\*  int(total_vram_gb // 5), without the floor of 1.
WorkersUnclamped(totalMiB) == totalMiB \div (GiBPerWorker * MiBPerGiB)

\*  suggested_workers = int(total_vram_gb // 5); if < 1: = 1
GpuWorkers(totalMiB) ==
    IF totalMiB \div (GiBPerWorker * MiBPerGiB) < 1 THEN 1
    ELSE totalMiB \div (GiBPerWorker * MiBPerGiB)

\* A hardware reading: devices are visible only with a CUDA runtime.
HInit ==
    /\ cpu_count \in 0..MaxCores
    /\ torch \in {"missing", "no_cuda", "cuda"}
    /\ gpus \in UNION { [1..n -> { k * MemStepMiB : k \in 1..MaxMemSteps }]
                          : n \in 0..MaxGpus }
    /\ torch # "cuda" => gpus = <<>>
    /\ suggested_workers = 0
    /\ suggested_batch_size = 0
    /\ hpc = "probe"
    /\ RepairIdle
    /\ PipelineIdle

\* import torch raises ImportError, or torch.cuda.is_available() is False.
ProbeCpu ==
    /\ hpc = "probe"
    /\ torch # "cuda"
    /\ suggested_workers' = CpuCores(cpu_count)
    /\ suggested_batch_size' = CpuBatchSize
    /\ hpc' = "done"
    /\ UNCHANGED <<cpu_count, torch, gpus, rvars, pvars>>

\* torch.cuda.is_available() is True.
ProbeGpu ==
    /\ hpc = "probe"
    /\ torch = "cuda"
    /\ suggested_workers' = GpuWorkers(SumSeq(gpus))
    /\ suggested_batch_size' = GpuBatchSize
    /\ hpc' = "done"
    /\ UNCHANGED <<cpu_count, torch, gpus, rvars, pvars>>

HNext == ProbeCpu \/ ProbeGpu

SpecHW == HInit /\ [][HNext]_vars

\* C6: without a GPU runtime the profile is (CPU core count, 1); with one
\* whose devices sum to T GiB it is (max(1, floor(T / 5)), 8); workers >= 1.
C6_HardwareProfile ==
    hpc = "done" =>
        /\ suggested_workers >= 1
        /\ torch # "cuda" =>
               /\ cpu_count >= 1 => suggested_workers = cpu_count
               /\ suggested_batch_size = 1
        /\ torch = "cuda" =>
               /\ suggested_batch_size = 8
               /\ SumSeq(gpus) < 5 * 1024 => suggested_workers = 1
               /\ SumSeq(gpus) >= 5 * 1024 =>
                      /\ suggested_workers * 5 * 1024 <= SumSeq(gpus)
                      /\ SumSeq(gpus) < (suggested_workers + 1) * 5 * 1024

\* One 24 GiB device has been profiled as (4, 8).
C6_Witness ==
    /\ hpc = "done"
    /\ torch = "cuda"
    /\ gpus = <<24576>>
    /\ suggested_workers = 4
    /\ suggested_batch_size = 8

----------------------------------------------------------------------------
(* The texts the repair pass is run on: every concatenation of at most a   *)
(* bounded number of tokens, per family of tokens.                         *)

MaxToks == 4
MaxTrail == 5
MaxMath == 5
MaxRm == 4
MaxArr == 3

PrintfCall == <<"p","r","i","n","t","f","(">>

\* Backslash, "$", space, ")", "]", "{", "}", "r", "m" and a code call.
Tokens ==
    { <<BS>>, <<"$">>, <<" ">>, <<")">>, <<"]">>, <<"{">>, <<"}">>, <<"r">>,
      <<"m">>, PrintfCall }

\* Backslashes, whitespace and the closing delimiters \) and \].
TrailTokens == { <<BS>>, <<" ">>, <<BS, ")">>, <<BS, "]">>, <<"}">> }

\* Math delimiters around code calls and other text.
MathTokens == { <<"$">>, PrintfCall, <<BS>>, <<"r", "m">>, <<" ">>, <<"x">> }

\* The legacy command and its operands.
RmTokens == { RmCmd, <<"{">>, <<"}">>, <<" ">>, <<"x">>, <<"2">> }

\* Array environments and column letters.
ArrayTokens == { BeginArray, <<"c">>, <<"|">>, <<"}">>, <<" ">>, <<"$">> }

RECURSIVE Flatten(_)
\* The concatenation of a sequence of tokens.
Flatten(ts) == IF ts = <<>> THEN <<>> ELSE Head(ts) \o Flatten(Tail(ts))

Texts(toks, max) == { Flatten(ts) : ts \in UNION { [1..n -> toks] : n \in 0..max } }

----------------------------------------------------------------------------
(* The repair pass run on a text, and run again on its own output (a       *)
(* re-run of the pipeline over an already repaired file).                  *)

RInit ==
    /\ text \in Texts(Tokens, MaxToks) \cup Texts(TrailTokens, MaxTrail)
                \cup Texts(MathTokens, MaxMath) \cup Texts(RmTokens, MaxRm)
                \cup Texts(ArrayTokens, MaxArr)
    /\ out = <<>>
    /\ rpc = "input"
    /\ HwIdle
    /\ PipelineIdle

Repair ==
    /\ rpc = "input"
    /\ out' = fix_latex_math(text)
    /\ rpc' = "once"
    /\ UNCHANGED <<text, hvars, pvars>>

Rerun ==
    /\ rpc = "once"
    /\ text' = out
    /\ out' = fix_latex_math(out)
    /\ rpc' = "twice"
    /\ UNCHANGED <<hvars, pvars>>

RNext == Repair \/ Rerun

SpecRepair == RInit /\ [][RNext]_vars

----------------------------------------------------------------------------
(* main and the two drivers.  The extractor and the compiler are external  *)
(* programs: what they do is chosen freely among what they can do.         *)

RECURSIVE DedupFrom(_, _)
\*  for pdf in files: if pdf.name[:-4] + ".epub" in files: files.remove(pdf)
\*  (k is the position of the loop; fl holds Paths, the name tested is a str)
DedupFrom(fl, k) ==
    IF k > Len(fl) THEN fl
    ELSE IF \E j \in 1..Len(fl) : fl[j] = EpubName(fl[k])
         THEN DedupFrom(SubSeq(fl, 1, k - 1) \o SubSeq(fl, k + 1, Len(fl)), k + 1)
    ELSE DedupFrom(fl, k + 1)

\* The PDF the main loop is at.
Cur == files[idx].stem

\*  effective_no_ocr = no_ocr, without the smart_ocr override.
EffectiveFromFlag(smart, no) == no

\*  effective_no_ocr = no_ocr; if smart_ocr: effective_no_ocr = True
EffectiveNoOcr(smart, no) == IF smart THEN TRUE ELSE no

\* The quality check reads the file: smart_ocr and effective_no_ocr and
\* result_path.exists()
QualityChecked(smart, eff, f) == smart /\ eff /\ Exists(f)

\* What a run of the extractor that exits with 0 may leave behind for PDF i.
Writes ==
    { [to |-> "expected", file |-> f] : f \in {Garbage} \cup { TextFile(c) : c \in Contents } }
        \cup { [to |-> "fallback", file |-> TextFile(c)] : c \in Contents }
        \cup { [to |-> "nowhere", file |-> Absent] }

After(files_, w) ==
    CASE w.to = "expected" -> [files_ EXCEPT !["expected"] = w.file]
      [] w.to = "fallback" -> [files_ EXCEPT !["fallback"] = w.file]
      [] w.to = "nowhere" -> files_

\* The expected path, whether anything is there or not.
LocateUnchecked(files_, i) == ExpectedPath(i)

\*  if result_path.exists(): return result_path
\*  else: found = list(output_dir.glob(f"**/{doc_name}.md")) ...
Locate(files_, i) ==
    IF Exists(files_["expected"]) THEN ExpectedPath(i)
    ELSE IF Exists(files_["fallback"]) THEN FallbackPath(i)
    ELSE NoPath

\*  possible_path if possible_path.exists() else None
Staged(files_, i) ==
    IF Exists(files_["expected"]) THEN ExpectedPath(i) ELSE NoPath

\* One record per subprocess.run of the extractor: the PDF, whether
\* --disable_ocr was passed, how the run ended, and what is at the expected
\* path when it returns.
Call(i, disable, result, files_) ==
    [pdf |-> i, disable_ocr |-> disable, result |-> result,
     left |-> files_["expected"]]

PInit ==
    /\ skip_existing \in BOOLEAN
    /\ no_ocr \in BOOLEAN
    /\ smart_ocr \in BOOLEAN
    /\ \E n \in 0..MaxFiles :
           /\ files = [k \in 1..n |-> PdfPath(k)]
           /\ epub \in SUBSET (1..n)
    /\ fs = [p \in Places |-> Absent]
    /\ idx = 1
    /\ pc = "start"
    /\ markdown_file = NoPath
    /\ cwd = StartDir
    /\ saved_cwd = StartDir
    /\ calls = <<>>
    /\ RepairIdle
    /\ HwIdle

\* main, lines 285-309: check_pandoc, the files to process, the deduplication.
Start ==
    /\ pc = "start"
    /\ \E pandoc \in BOOLEAN :
           IF ~pandoc \/ files = <<>>
           THEN pc' = "returned" /\ UNCHANGED files
           ELSE pc' = "loop" /\ files' = DedupFrom(files, 1)
    /\ UNCHANGED <<skip_existing, no_ocr, smart_ocr, idx, markdown_file, fs, epub,
                   cwd, saved_cwd, calls, rvars, hvars>>

\* What an earlier run may have left in the staging directory for a PDF.
Staging ==
    { f \in [Places -> {Absent, Garbage} \cup { TextFile(c) : c \in Contents }] :
          f["fallback"] \in {Absent, TextFile(LongText)} }

\* main, lines 311-340: the next PDF, with whatever is staged for it; with
\* --skip-existing the staged file is taken.
BeginFile ==
    /\ pc = "loop"
    /\ idx <= Len(files)
    /\ fs' \in Staging
    /\ calls' = <<>>
    /\ IF ~skip_existing
       THEN pc' = "extract1" /\ markdown_file' = NoPath
       ELSE pc' = "decide" /\ markdown_file' = Staged(fs', Cur)
    /\ UNCHANGED <<skip_existing, no_ocr, smart_ocr, files, idx, epub, cwd,
                   saved_cwd, rvars, hvars>>

\* main: the loop is over.
EndLoop ==
    /\ pc = "loop"
    /\ idx > Len(files)
    /\ pc' = "done"
    /\ UNCHANGED <<skip_existing, no_ocr, smart_ocr, files, idx, markdown_file, fs,
                   epub, cwd, saved_cwd, calls, rvars, hvars>>

\* convert_pdf_to_markdown, lines 80-89 and 117-124: the first run fails
\* (marker_single is missing, or it exits with a non-zero status).
Extract1Fails ==
    /\ pc = "extract1"
    /\ \E r \in {"missing", "nonzero"} :
           calls' = Append(calls, Call(Cur, EffectiveNoOcr(smart_ocr, no_ocr), r, fs))
    /\ markdown_file' = NoPath
    /\ pc' = "decide"
    /\ UNCHANGED <<skip_existing, no_ocr, smart_ocr, files, idx, fs, epub, cwd,
                   saved_cwd, rvars, hvars>>

\* convert_pdf_to_markdown, lines 80-115: the first run succeeds; then the
\* quality check, whose read_text is not guarded against what it may raise
\* on a file that does not decode.
Extract1 ==
    /\ pc = "extract1"
    /\ \E w \in Writes :
         LET eff == EffectiveNoOcr(smart_ocr, no_ocr)
             after == After(fs, w)
             f == after["expected"]
         IN /\ fs' = after
            /\ calls' = Append(calls, Call(Cur, eff, "ok", after))
            /\ IF QualityChecked(smart_ocr, eff, f) /\ f.kind = "garbage"
               THEN pc' = "crashed" /\ UNCHANGED markdown_file
               ELSE IF QualityChecked(smart_ocr, eff, f) /\ LowQuality(f.data)
               THEN pc' = "extract2" /\ UNCHANGED markdown_file
               ELSE pc' = "decide" /\ markdown_file' = Locate(after, Cur)
    /\ UNCHANGED <<skip_existing, no_ocr, smart_ocr, files, idx, epub, cwd,
                   saved_cwd, rvars, hvars>>

\* convert_pdf_to_markdown, lines 101-105 and 117-124: the retry fails.
Extract2Fails ==
    /\ pc = "extract2"
    /\ \E r \in {"missing", "nonzero"} :
           calls' = Append(calls, Call(Cur, FALSE, r, fs))
    /\ markdown_file' = NoPath
    /\ pc' = "decide"
    /\ UNCHANGED <<skip_existing, no_ocr, smart_ocr, files, idx, fs, epub, cwd,
                   saved_cwd, rvars, hvars>>

\* convert_pdf_to_markdown, lines 101-115: the retry with OCR succeeds.
Extract2 ==
    /\ pc = "extract2"
    /\ \E w \in Writes :
         LET after == After(fs, w)
         IN /\ fs' = after
            /\ calls' = Append(calls, Call(Cur, FALSE, "ok", after))
            /\ markdown_file' = Locate(after, Cur)
    /\ pc' = "decide"
    /\ UNCHANGED <<skip_existing, no_ocr, smart_ocr, files, idx, epub, cwd,
                   saved_cwd, rvars, hvars>>

\* main, lines 341-346, and convert_markdown_to_epub, lines 201-202: with a
\* Markdown file the compilation driver is entered and changes directory.
Decide ==
    /\ pc = "decide"
    /\ IF markdown_file # NoPath
       THEN /\ saved_cwd' = cwd
            /\ cwd' = Parent(markdown_file)
            /\ pc' = "read"
            /\ UNCHANGED idx
       ELSE /\ idx' = idx + 1
            /\ pc' = "loop"
            /\ UNCHANGED <<cwd, saved_cwd>>
    /\ UNCHANGED <<skip_existing, no_ocr, smart_ocr, files, markdown_file, fs, epub,
                   calls, rvars, hvars>>

\* The texts a file can hold are prepared once; any other text on the spot.
PreparedOf(c) == IF c \in DOMAIN PreparedTable THEN PreparedTable[c] ELSE Prepared(c)

\* convert_markdown_to_epub, lines 204-210 and 230-232: read, repair, write
\* back when the repair changed something.  What read_text or write_text
\* raises is caught by the outer except: the function returns False.
ReadRepair ==
    /\ pc = "read"
    /\ LET f == fs[markdown_file.where] IN
       IF f.kind # "text"
       THEN /\ idx' = idx + 1
            /\ pc' = "loop"
            /\ UNCHANGED fs
       ELSE LET pr == PreparedOf(f.data) IN
            IF pr.fixed_content # pr.content
            THEN \E written \in BOOLEAN :
                    IF written
                    THEN /\ fs' = [fs EXCEPT ![markdown_file.where] = TextFile(pr.fixed_content)]
                         /\ pc' = "compile"
                         /\ UNCHANGED idx
                    ELSE /\ idx' = idx + 1
                         /\ pc' = "loop"
                         /\ UNCHANGED fs
            ELSE /\ pc' = "compile"
                 /\ UNCHANGED <<idx, fs>>
    /\ UNCHANGED <<skip_existing, no_ocr, smart_ocr, files, markdown_file, epub, cwd,
                   saved_cwd, calls, rvars, hvars>>

\* convert_markdown_to_epub, lines 212-232: the compiler runs; the finally
\* clause changes back to the saved directory whether it fails or not.
Compile ==
    /\ pc = "compile"
    /\ \E compiled \in BOOLEAN :
           epub' = IF compiled THEN epub \cup {Cur} ELSE epub
    /\ cwd' = saved_cwd
    /\ idx' = idx + 1
    /\ pc' = "loop"
    /\ UNCHANGED <<skip_existing, no_ocr, smart_ocr, files, markdown_file, fs,
                   saved_cwd, calls, rvars, hvars>>

Next ==
    \/ Start
    \/ BeginFile
    \/ EndLoop
    \/ Extract1Fails
    \/ Extract1
    \/ Extract2Fails
    \/ Extract2
    \/ Decide
    \/ ReadRepair
    \/ Compile

Spec == PInit /\ [][Next]_vars

----------------------------------------------------------------------------
(* Properties of the repair pass.                                          *)

\* C1: the repair pass is idempotent: repairing an already repaired text
\* (the re-run, where text is the first output and out the second) changes
\* nothing.
C1_Idempotent == rpc = "twice" => out = text

\* Every array column specification of s has a "}" right after it.
ArraysClosed(s) ==
    \A i \in 1..Len(s) :
        ArrayEnd(s, i) # 0 =>
            /\ ArrayEnd(s, i) <= Len(s)
            /\ s[ArrayEnd(s, i)] = "}"

HasArray(s) == \E i \in 1..Len(s) : ArrayEnd(s, i) # 0

\* C7: when the input holds \begin{array}{ followed by column letters, the
\* output has a closing brace right after every column specification; and an
\* input whose specifications are all closed keeps them as they are.
C7_ArrayBraceRepaired ==
    (rpc = "once" /\ HasArray(text)) =>
        /\ HasArray(out)
        /\ ArraysClosed(out)
        /\ ArraysClosed(text) =>
               \A i \in 1..Len(text) :
                   ArrayEnd(text, i) # 0 =>
                       fix_array(text, i, ArrayEnd(text, i))
                           = Slice(text, i, ArrayEnd(text, i))

RECURSIVE Delims(_, _)
\* The "$" / "$$" delimiters of s from position i on, read left to right:
\* [pos |-> where it starts, g |-> 1 for "$$", 0 for "$"].
Delims(s, i) ==
    IF i > Len(s) THEN <<>>
    ELSE IF StartsWith(s, i, <<"$", "$">>)
         THEN <<[pos |-> i, g |-> 1]>> \o Delims(s, i + 2)
    ELSE IF s[i] = "$" THEN <<[pos |-> i, g |-> 0]>> \o Delims(s, i + 1)
    ELSE Delims(s, i + 1)

RECURSIVE UnwrapMatches(_, _, _)
\* The matches re.sub makes for code pattern pat in s, scanning from i:
\* [pos |-> the opening delimiter, g |-> 1 for "$$", close |-> the closing one].
UnwrapMatches(s, i, pat) ==
    IF i > Len(s) THEN <<>>
    ELSE LET e == UnwrapEnd(s, i, pat)
             m == UnwrapMatch(s, i, pat)
         IN IF e = 0 THEN UnwrapMatches(s, i + 1, pat)
            ELSE <<[pos |-> i, g |-> m.g, close |-> m.close]>>
                     \o UnwrapMatches(s, e, pat)

\* The match m of s removes an opening delimiter (an odd one, reading left
\* to right) and the delimiter that closes it (the next one, of the same kind).
RemovesOnePair(s, m) ==
    LET ds == Delims(s, 1)
    IN \E j \in 1..Len(ds) :
           /\ j % 2 = 1
           /\ j + 1 <= Len(ds)
           /\ ds[j] = [pos |-> m.pos, g |-> m.g]
           /\ ds[j + 1] = [pos |-> m.close, g |-> m.g]

\* The text code pattern n is searched in: after steps 1-4 and patterns 1..n-1.
RECURSIVE UnwrapInput(_, _)
UnwrapInput(s, n) ==
    IF n = 1 THEN FixArrays(FixRm(s))
    ELSE Sub([kind |-> "unwrap", pat |-> CodePatterns[n - 1]], UnwrapInput(s, n - 1))

\* C8: every replacement of the code-unwrapping step removes one opening
\* delimiter together with its own closing delimiter of the same kind, never
\* the closing delimiter of one span with the opening one of the next.
C8_UnwrapRespectsPairing ==
    rpc = "once" =>
        \A n \in 1..Len(CodePatterns) :
            LET s == UnwrapInput(text, n)
                ms == UnwrapMatches(s, 1, CodePatterns[n])
            IN \A k \in 1..Len(ms) : RemovesOnePair(s, ms[k])

\* s ends with the closing delimiter \) or \].
EndsWithClose(s) ==
    /\ Len(s) >= 2
    /\ s[Len(s) - 1] = BS
    /\ s[Len(s)] \in {")", "]"}

RECURSIVE RunStart(_, _)
\* Where the run of backslashes and whitespace that ends just before
\* position i starts (i itself when there is none).
RunStart(s, i) ==
    IF i > 1 /\ s[i - 1] \in WhiteSpace \cup {BS} THEN RunStart(s, i - 1) ELSE i

\* The run before the closing delimiter that ends s holds a backslash.
HasTrailingRun(s) ==
    /\ EndsWithClose(s)
    /\ \E k \in RunStart(s, Len(s) - 1)..(Len(s) - 2) : s[k] = BS

\* C9: when the input ends with \) or \] preceded by a run of backslashes
\* (whitespace allowed between the backslashes and before the delimiter), the
\* output ends with one space and the delimiter, and no backslash of the run
\* is left before that space.
C9_TrailingRunCollapsed ==
    (rpc = "once" /\ HasTrailingRun(text)) =>
        /\ Len(out) >= 3
        /\ Slice(out, Len(out) - 2, Len(out) + 1)
               = <<" ", BS, text[Len(text)]>>
        /\ ~HasTrailingRun(out)

IsAlphaNum(s) == Len(s) >= 1 /\ \A k \in 1..Len(s) : s[k] \in AlphaNum

\* C10: \rm{t} and \rm t become \mathrm{t} for an alphanumeric t, a bare \rm
\* becomes \mathrm, and the output never holds a leftover \rm.
C10_NoLegacyRmLeft ==
    rpc = "once" =>
        /\ ~Contains(out, RmCmd)
        /\ text = RmCmd => out = MathrmCmd
        /\ \A t \in {Slice(text, 5, Len(text) + 1)} :
               (IsAlphaNum(t) /\ text = RmCmd \o <<" ">> \o t)
                   => out = MathrmCmd \o <<"{">> \o t \o <<"}">>
        /\ \A t \in {Slice(text, 5, Len(text))} :
               (IsAlphaNum(t) /\ text = RmCmd \o <<"{">> \o t \o <<"}">>)
                   => out = MathrmCmd \o <<"{">> \o t \o <<"}">>

----------------------------------------------------------------------------
(* Properties of the pipeline.                                             *)

\* C2: convert_markdown_to_epub restores the working directory whatever the
\* outcome: whenever main is back in its loop (every call has returned), the
\* working directory is the one the last call was entered with.
C2_CwdRestored == pc \in {"loop", "done"} => cwd = saved_cwd

\* C3, as stated: the compiler is invoked only with a non-empty Markdown
\* file at the expected staging path.
C3_NonEmptyAtExpectedPath ==
    pc = "compile" =>
        /\ markdown_file = ExpectedPath(Cur)
        /\ fs["expected"].kind = "text"
        /\ fs["expected"].data # <<>>

\* C3, amended: the compilation driver is entered only with a file that
\* exists at the expected staging path or, when nothing is at the expected
\* path, at another path of the staging directory found by the search; and
\* the compiler is invoked only when that file was read as text (which may
\* be empty).
C3_CompiledFromStagedFile ==
    /\ pc \in {"read", "compile"} =>
           /\ markdown_file.where \in Places
           /\ markdown_file.stem = Cur
           /\ Exists(fs[markdown_file.where])
           /\ markdown_file.where = "fallback" => ~Exists(fs["expected"])
    /\ pc = "compile" => fs[markdown_file.where].kind = "text"

\* The compiler is about to run on an empty file found by the fallback
\* search, without --skip-existing.
C3_Witness ==
    /\ pc = "compile"
    /\ ~skip_existing
    /\ markdown_file = FallbackPath(Cur)
    /\ fs["fallback"] = TextFile(EmptyText)

\* C4: one file's failure never aborts the batch: main is never stopped by
\* an error while later files of the list are still to be processed.
C4_BatchNeverAborts == ~(pc = "crashed" /\ idx < Len(files))

\* The first extractor run succeeded and left readable, low-quality text
\* at the expected path.
FirstIsLowQuality ==
    /\ calls[1].result = "ok"
    /\ calls[1].left.kind = "text"
    /\ Len(Strip(calls[1].left.data)) < LowQualityLimit

\* C5: the invocations of the extractor for one PDF.  At most two; the first
\* with --disable_ocr when smart_ocr is set, else iff no_ocr; a second one
\* only with smart_ocr after a successful first one that left low-quality
\* text at the expected path, and then without --disable_ocr.  When
\* convert_pdf_to_markdown has returned: there was a second one whenever
\* those conditions held, exactly one without smart_ocr, and the path
\* returned is the file as the last invocation left it (None after a
\* failed one).
C5_SmartOcrSequence ==
    /\ Len(calls) <= 2
    /\ pc \in {"extract1", "extract2", "decide", "read", "compile", "crashed"} =>
           \A k \in 1..Len(calls) : calls[k].pdf = Cur
    /\ Len(calls) >= 1 =>
           calls[1].disable_ocr = (IF smart_ocr THEN TRUE ELSE no_ocr)
    /\ Len(calls) = 2 =>
           /\ smart_ocr
           /\ FirstIsLowQuality
           /\ calls[2].disable_ocr = FALSE
    /\ (pc = "decide" /\ ~skip_existing) =>
           /\ Len(calls) >= 1
           /\ (smart_ocr /\ FirstIsLowQuality) => Len(calls) = 2
           /\ ~smart_ocr => Len(calls) = 1
           /\ calls[Len(calls)].result # "ok" => markdown_file = NoPath
           /\ calls[Len(calls)].result = "ok" =>
                  /\ calls[Len(calls)].left = fs["expected"]
                  /\ markdown_file =
                         IF Exists(fs["expected"]) THEN ExpectedPath(Cur)
                         ELSE IF Exists(fs["fallback"]) THEN FallbackPath(Cur)
                         ELSE NoPath

\* With --smart-ocr and --no-ocr both given, the retry with OCR has run and
\* its file is the one returned.
C5_Witness ==
    /\ pc = "decide"
    /\ smart_ocr
    /\ no_ocr
    /\ Len(calls) = 2
    /\ calls[1].disable_ocr
    /\ ~calls[2].disable_ocr
    /\ calls[2].result = "ok"
    /\ markdown_file = ExpectedPath(Cur)
    /\ fs["expected"] = TextFile(LongText)

\* C11: the repaired text is what the compiler reads: whenever the compiler
\* is about to be invoked on the Markdown file, the file on disk holds
\* fix_latex_math of what was read with every <br> replaced by <br/>, and so
\* no literal <br>.
C11_CompilerReadsRepaired ==
    [][(pc = "read" /\ pc' = "compile") =>
           /\ fs'[markdown_file.where].kind = "text"
           /\ fs'[markdown_file.where].data
                  = PreparedOf(fs[markdown_file.where].data).fixed_content
           /\ ~Contains(fs'[markdown_file.where].data, BrTag)]_vars

\* The deduplication of main removes nothing: the list the loop works on is
\* the list that was discovered.
DedupKeepsFiles == files' = files

\* The loop takes the PDFs in list order, one at a time: its position stays
\* or moves to the next PDF, and it moves only when the steps of the PDF in
\* hand have ended; the loop is over only after the last PDF.
OneAtATimeInOrder ==
    /\ idx' \in {idx, idx + 1}
    /\ idx' = idx + 1 => (pc \in {"decide", "read", "compile"} /\ pc' = "loop")
    /\ pc' \in {"extract1", "extract2", "decide", "read", "compile"} =>
           idx' \in 1..Len(files')
    /\ pc' = "done" => idx' = Len(files') + 1

\* main is not stopped while PDFs after the one in hand are still to come.
NoPdfLeftOut == pc' = "crashed" => idx' = Len(files')

\* C12: the deduplication never removes a file, and every discovered PDF is
\* processed exactly once, in list order and one at a time, whatever EPUBs
\* are on disk.
C12_EveryPdfProcessedOnce ==
    [][DedupKeepsFiles /\ OneAtATimeInOrder /\ NoPdfLeftOut]_vars

====
